---- MODULE Spec2Model ----
(***************************************************************************)
(* Model of Scripts/debug-log-server.py: an HTTP server (http.server's     *)
(* single-threaded HTTPServer) whose POST handler decodes a JSON event,    *)
(* stamps it with server_time, renders it on the console, appends it as    *)
(* one line to debug-logs.jsonl and answers 200; whose GET handler is a    *)
(* health check.                                                           *)
(*                                                                         *)
(* Python strings are sequences of one-character strings, so that upper(), *)
(* lower() and the `in` substring test are computed, not assumed.  A JSON  *)
(* value is a record [t, n, s, kv]: t its type, n its number (or 0/1 for a *)
(* bool), s its characters, kv its members (<<key, value>> pairs; an array *)
(* uses the empty key).  The log file is a sequence of tokens: the text of *)
(* one JSON document, or a newline.                                        *)
(***************************************************************************)
EXTENDS Integers, Sequences, FiniteSets, TLC

(* ------------------------------ bounds -------------------------------- *)
\* connections the clients open over the whole run
MaxRequests == 2
\* connections waiting in the listen queue at one time
MaxPending == 1
\* times the developer stops the server with Ctrl-C and starts it again
MaxRestarts == 1

(* --------------------------- string literals -------------------------- *)
K_timestamp == <<"t","i","m","e","s","t","a","m","p">>
K_location == <<"l","o","c","a","t","i","o","n">>
K_message == <<"m","e","s","s","a","g","e">>
K_data == <<"d","a","t","a">>
K_hypothesisId == <<"h","y","p","o","t","h","e","s","i","s","I","d">>
K_server_time == <<"s","e","r","v","e","r","_","t","i","m","e">>
S_unknown == <<"u","n","k","n","o","w","n">>
S_ERROR == <<"E","R","R","O","R">>
S_FAIL == <<"F","A","I","L">>
S_currentIDs == <<"c","u","r","r","e","n","t","I","D","s">>
S_optimisticIDs == <<"o","p","t","i","m","i","s","t","i","c","I","D","s">>
S_restore == <<"r","e","s","t","o","r","e">>
S_notify == <<"n","o","t","i","f","y">>
S_None == <<"N","o","n","e">>
S_True == <<"T","r","u","e">>
S_False == <<"F","a","l","s","e">>
T_SomethingFailed == <<"S","o","m","e","t","h","i","n","g"," ","F","A","I","L","E","D">>
T_ok == <<"o","k">>
T_NotifyRestored == <<"N","o","t","i","f","y",":"," ","r","e","s","t","o","r","e","d"," ","s","e","s","s","i","o","n">>
T_restoreNotify == <<"r","e","s","t","o","r","e"," ","n","o","t","i","f","y">>
T_errorX == <<"e","r","r","o","r"," ","x">>
T_notifyAll == <<"n","o","t","i","f","y"," ","a","l","l">>
T_abc == <<"a","b","c">>
T_client == <<"c","l","i","e","n","t">>
T_H1 == <<"H","1">>
T_Reactor == <<"R","e","a","c","t","o","r",".","s","w","i","f","t",":","4","2">>
T_ids == <<"i","d","s">>
T_CurrentIDs == <<"C","u","r","r","e","n","t","I","D","s">>
T_note == <<"n","o","t","e">>
T_epoch == <<"1","9","7","0","-","0","1","-","0","1","T">>
LowerAlphabet == <<"a","b","c","d","e","f","g","h","i","j","k","l","m","n","o","p","q","r","s","t","u","v","w","x","y","z">>
UpperAlphabet == <<"A","B","C","D","E","F","G","H","I","J","K","L","M","N","O","P","Q","R","S","T","U","V","W","X","Y","Z">>
DigitChars == <<"0","1","2","3","4","5","6","7","8","9">>

(* ------------------------------ str methods --------------------------- *)
\* str.upper() on one character (ASCII letters)
UpperChar(c) ==
    IF \E i \in 1..Len(LowerAlphabet) : LowerAlphabet[i] = c
    THEN UpperAlphabet[CHOOSE i \in 1..Len(LowerAlphabet) : LowerAlphabet[i] = c]
    ELSE c

\* str.lower() on one character (ASCII letters)
LowerChar(c) ==
    IF \E i \in 1..Len(UpperAlphabet) : UpperAlphabet[i] = c
    THEN LowerAlphabet[CHOOSE i \in 1..Len(UpperAlphabet) : UpperAlphabet[i] = c]
    ELSE c

Upper(s) == [i \in 1..Len(s) |-> UpperChar(s[i])]

Lower(s) == [i \in 1..Len(s) |-> LowerChar(s[i])]

\* Python's `sub in s` for strings
Contains(sub, s) ==
    \E i \in 1..(Len(s) - Len(sub) + 1) : SubSeq(s, i, i + Len(sub) - 1) = sub

RECURSIVE Pad(_, _)
\* n as w decimal digits, zero-padded (strftime's %H, %M, %S, %f)
Pad(n, w) ==
    IF w = 0 THEN <<>> ELSE Pad(n \div 10, w - 1) \o <<DigitChars[(n % 10) + 1]>>

RECURSIVE IntChars(_)
\* repr() of an int
IntChars(n) ==
    IF n < 0 THEN <<"-">> \o IntChars(0 - n)
    ELSE IF n < 10 THEN <<DigitChars[n + 1]>>
    ELSE IntChars(n \div 10) \o <<DigitChars[(n % 10) + 1]>>

(* ------------------------------ JSON values --------------------------- *)
Null == [t |-> "null", n |-> 0, s |-> <<>>, kv |-> <<>>]

Num(x) == [t |-> "num", n |-> x, s |-> <<>>, kv |-> <<>>]

Bool(b) == [t |-> "bool", n |-> IF b THEN 1 ELSE 0, s |-> <<>>, kv |-> <<>>]

Str(chars) == [t |-> "str", n |-> 0, s |-> chars, kv |-> <<>>]

Arr(items) ==
    [t |-> "arr", n |-> 0, s |-> <<>>,
     kv |-> [i \in 1..Len(items) |-> <<<<>>, items[i]>>]]

Obj(pairs) == [t |-> "obj", n |-> 0, s |-> <<>>, kv |-> pairs]

\* Python truth value of a decoded JSON value
Truthy(v) ==
    CASE v.t = "null" -> FALSE
      [] v.t = "bool" -> v.n = 1
      [] v.t = "num"  -> v.n # 0
      [] v.t = "str"  -> v.s # <<>>
      [] OTHER        -> v.kv # <<>>

\* dict.get(key, default) on the members of a dict
DictGet(kv, key, default) ==
    IF \E i \in 1..Len(kv) : kv[i][1] = key
    THEN kv[CHOOSE i \in 1..Len(kv) : kv[i][1] = key][2]
    ELSE default

\* d[key] = value: an existing key keeps its position, a new key goes last
DictSet(kv, key, value) ==
    IF \E i \in 1..Len(kv) : kv[i][1] = key
    THEN [i \in 1..Len(kv) |-> IF kv[i][1] = key THEN <<key, value>> ELSE kv[i]]
    ELSE Append(kv, <<key, value>>)

DictKeys(kv) == {kv[i][1] : i \in 1..Len(kv)}

RECURSIVE Loads(_)
RECURSIVE LoadMembers(_)
\* the members of a JSON object text as a dict: a repeated key keeps its
\* last value
LoadMembers(pairs) ==
    IF pairs = <<>> THEN <<>>
    ELSE LET n == Len(pairs)
         IN  DictSet(LoadMembers(SubSeq(pairs, 1, n - 1)),
                     pairs[n][1], Loads(pairs[n][2]))

\* json.loads of a well-formed JSON text denoting v
Loads(v) ==
    CASE v.t = "obj" -> [v EXCEPT !.kv = LoadMembers(v.kv)]
      [] v.t = "arr" -> [v EXCEPT !.kv = [i \in 1..Len(v.kv) |->
                                             <<<<>>, Loads(v.kv[i][2])>>]]
      [] OTHER       -> v

RECURSIVE PyRepr(_)
RECURSIVE JoinRepr(_, _)
\* the ", "-joined members of a list (isDict = FALSE) or dict repr
JoinRepr(kv, isDict) ==
    IF kv = <<>> THEN <<>>
    ELSE LET n    == Len(kv)
             head == JoinRepr(SubSeq(kv, 1, n - 1), isDict)
             item == IF isDict
                     THEN <<"'">> \o kv[n][1] \o <<"'", ":", " ">> \o PyRepr(kv[n][2])
                     ELSE PyRepr(kv[n][2])
         IN  IF n = 1 THEN item ELSE head \o <<",", " ">> \o item

\* repr() of a decoded JSON value
PyRepr(v) ==
    CASE v.t = "null" -> S_None
      [] v.t = "bool" -> IF v.n = 1 THEN S_True ELSE S_False
      [] v.t = "num"  -> IntChars(v.n)
      [] v.t = "str"  -> <<"'">> \o v.s \o <<"'">>
      [] v.t = "arr"  -> <<"[">> \o JoinRepr(v.kv, FALSE) \o <<"]">>
      [] OTHER        -> <<"{">> \o JoinRepr(v.kv, TRUE) \o <<"}">>

\* str() of a decoded JSON value: a str is itself, anything else its repr
PyStr(v) == IF v.t = "str" THEN v.s ELSE PyRepr(v)

(* --------------------------------- time ------------------------------- *)
\* datetime (of a millisecond count, local zone taken as UTC)
\* .strftime('%H:%M:%S.%f')[:-3]
FormatTime(ms) ==
    Pad((ms \div 3600000) % 24, 2) \o <<":">> \o Pad((ms \div 60000) % 60, 2)
      \o <<":">> \o Pad((ms \div 1000) % 60, 2) \o <<".">> \o Pad(ms % 1000, 3)

\* datetime.isoformat() within the first day of the epoch: the fraction is
\* left out when the microsecond is 0
IsoFormat(ms) ==
    T_epoch \o Pad((ms \div 3600000) % 24, 2) \o <<":">>
      \o Pad((ms \div 60000) % 60, 2) \o <<":">> \o Pad((ms \div 1000) % 60, 2)
      \o (IF ms % 1000 = 0 THEN <<>> ELSE <<".">> \o Pad((ms % 1000) * 1000, 6))

\* the readings datetime.now() can give, in milliseconds
Times == {1000, 3723004}

(* ------------------------------- requests ----------------------------- *)
\* The bytes of a request body: whether they are valid UTF-8, whether the
\* text is a well-formed JSON document, and the value the document denotes
\* (an object's members as written, repeated keys included).
Bytes(enc, text, val) == [enc |-> enc, text |-> text, val |-> val]

EmptyBytes == Bytes("utf8", "malformed", Null)

IDsList == Arr(<<Num(1), Num(2), Num(3)>>)

\* {"timestamp": 3723004, "location": "Reactor.swift:42",
\*  "message": "Something FAILED", "data": {"currentIDs": [1, 2, 3]},
\*  "hypothesisId": "H1"}
B_red ==
    Obj(<< <<K_timestamp, Num(3723004)>>, <<K_location, Str(T_Reactor)>>,
           <<K_message, Str(T_SomethingFailed)>>,
           <<K_data, Obj(<< <<S_currentIDs, IDsList>> >>)>>,
           <<K_hypothesisId, Str(T_H1)>> >>)

\* {"message": "ok", "data": {"currentIDs": [1, 2, 3]}}
B_yellow ==
    Obj(<< <<K_message, Str(T_ok)>>,
           <<K_data, Obj(<< <<S_currentIDs, IDsList>> >>)>> >>)

\* {"message": "restore notify", "data": {"note": "optimisticIDs"}}
B_yellowValue ==
    Obj(<< <<K_message, Str(T_restoreNotify)>>,
           <<K_data, Obj(<< <<T_note, Str(S_optimisticIDs)>> >>)>> >>)

\* {"timestamp": true, "message": "Notify: restored session",
\*  "data": {"ids": "CurrentIDs"}}
B_cyan ==
    Obj(<< <<K_timestamp, Bool(TRUE)>>, <<K_message, Str(T_NotifyRestored)>>,
           <<K_data, Obj(<< <<T_ids, Str(T_CurrentIDs)>> >>)>> >>)

\* {"server_time": "client", "message": "error x", "timestamp": "",
\*  "message": "notify all"}
B_dup ==
    Obj(<< <<K_server_time, Str(T_client)>>, <<K_message, Str(T_errorX)>>,
           <<K_timestamp, Str(<<>>)>>, <<K_message, Str(T_notifyAll)>> >>)

\* {}
B_empty == Obj(<<>>)

\* {"timestamp": "abc", "message": "ok"}
B_tsString == Obj(<< <<K_timestamp, Str(T_abc)>>, <<K_message, Str(T_ok)>> >>)

\* {"message": 5}
B_msgNumber == Obj(<< <<K_message, Num(5)>> >>)

\* {"message": "ok", "data": "optimisticIDs"}
B_dataString ==
    Obj(<< <<K_message, Str(T_ok)>>, <<K_data, Str(S_optimisticIDs)>> >>)

\* [1, 2, 3]
B_array == IDsList

Request(method, clen, body) == [method |-> method, clen |-> clen, body |-> body]

\* The requests a client sends.  clen is the Content-Length header: "exact"
\* (the length of the body), "missing" or "invalid" (not a number).
Requests ==
    {Request("POST", "exact", Bytes("utf8", "json", v)) :
        v \in {B_red, B_yellow, B_yellowValue, B_cyan, B_dup, B_empty,
               B_tsString, B_msgNumber, B_dataString, B_array}}
    \cup {Request("POST", "exact", Bytes("utf8", "malformed", Null)),
          Request("POST", "exact", Bytes("invalid", "malformed", Null)),
          Request("POST", "missing", EmptyBytes),
          Request("POST", "invalid", Bytes("utf8", "json", B_yellow)),
          Request("GET", "missing", EmptyBytes),
          Request("GET", "exact", Bytes("utf8", "json", B_yellow)),
          Request("GET", "exact", Bytes("invalid", "malformed", Null))}

NoRequest == Request("", "missing", EmptyBytes)

(* ------------------------------- responses ---------------------------- *)
Response(status, ctype, content) ==
    [status |-> status, ctype |-> ctype, body |-> content]

NoResponse == Response(0, "", "")

(* ------------------------------- log file ----------------------------- *)
\* json.dumps(v): the text of one JSON document, one token of the file
Dumps(v) == [kind |-> "json", val |-> v]

Newline == [kind |-> "nl", val |-> Null]

\* one console line: what print() was given
OutLine(kind, col, text, a, b) ==
    [kind |-> kind, color |-> col, text |-> text, a |-> a, b |-> b]

(* -------------------------------- state ------------------------------- *)
VARIABLES
    running,      \* the server process is inside serve_forever()
    restarts,     \* times the process was started again
    pending,      \* connections waiting in the listen queue
    accepted,     \* connections accepted so far
    failedBefore, \* this process has already had a request fail
    file,         \* the tokens of debug-logs.jsonl
    req,          \* the request being handled (or the last one handled)
    pc,           \* where its handler is
    body,         \* do_POST: body
    data,         \* do_POST: data
    time_str,     \* do_POST: time_str
    color,        \* do_POST: color
    out,          \* what the handler has printed
    buf,          \* what f.write has put in the file object's buffer
    fopen,        \* the handler holds the log file open
    resp,         \* the response sent on the connection
    exc,          \* the exception that ended the handler, if any
    appended,     \* lines this handler has added to the file
    steps         \* the steps this handler has completed, in order

vars == <<running, restarts, pending, accepted, failedBefore, file, req, pc,
          body, data, time_str, color, out, buf, fopen, resp, exc, appended,
          steps>>

server == <<running, restarts, pending, accepted, failedBefore>>

locals == <<body, data, time_str, color, out>>

Terminal == {"done", "crashed", "aborted"}

Handling == pc \notin Terminal \cup {"idle"}

\* the last request ended in an error: a 400, or an exception that escaped
RequestFailed == pc = "crashed" \/ (pc = "done" /\ resp.status = 400)

Init ==
    /\ running = TRUE
    /\ restarts = 0
    /\ pending = 0
    /\ accepted = 0
    /\ failedBefore = FALSE
    /\ file = <<>>
    /\ req = NoRequest
    /\ pc = "idle"
    /\ body = EmptyBytes
    /\ data = Null
    /\ time_str = <<>>
    /\ color = ""
    /\ out = <<>>
    /\ buf = <<>>
    /\ fopen = FALSE
    /\ resp = NoResponse
    /\ exc = ""
    /\ appended = 0
    /\ steps = <<>>

(* ------------------------------ the handler --------------------------- *)
\* PcAfter with the response sent before the event is persisted
PcRespondFirst(p) ==
    CASE p = "read"    -> "parse"
      [] p = "parse"   -> "enrich"
      [] p = "enrich"  -> "render"
      [] p = "render"  -> "respond"
      [] p = "respond" -> "open"
      [] p = "open"    -> "write"
      [] p = "write"   -> "close"
      [] OTHER         -> "done"

\* PcAfter with the event persisted before it is rendered
PcPersistFirst(p) ==
    CASE p = "read"    -> "parse"
      [] p = "parse"   -> "enrich"
      [] p = "enrich"  -> "open"
      [] p = "open"    -> "write"
      [] p = "write"   -> "close"
      [] p = "close"   -> "render"
      [] p = "render"  -> "respond"
      [] OTHER         -> "done"

\* the statement do_POST goes on to when statement p completes
PcAfter(p) ==
    CASE p = "read"    -> "parse"
      [] p = "parse"   -> "enrich"
      [] p = "enrich"  -> "render"
      [] p = "render"  -> "open"
      [] p = "open"    -> "write"
      [] p = "write"   -> "close"
      [] p = "close"   -> "respond"
      [] OTHER         -> "done"

\* ServerSurvives with any exception ending serve_forever
StopsOnAnyError(e) == FALSE

\* whether serve_forever goes on after exception e leaves a handler: the
\* server catches Exception (and reports it); KeyboardInterrupt leaves the
\* loop
ServerSurvives(e) == e # "KeyboardInterrupt"

\* an exception that no except clause of the handler catches
Raise(e) ==
    /\ pc' = "crashed"
    /\ exc' = e
    /\ running' = ServerSurvives(e)
    /\ UNCHANGED <<restarts, pending, accepted, failedBefore, req, resp, steps>>

\* a client opens a connection
Connect ==
    /\ running
    /\ pending < MaxPending
    /\ pending' = pending + 1
    /\ UNCHANGED <<running, restarts, accepted, failedBefore, file, req, pc,
                   locals, buf, fopen, resp, exc, appended, steps>>

\* serve_forever takes the next connection once the handler of the previous
\* one has returned, and dispatches on the method
Accept ==
    /\ running
    /\ ~Handling
    /\ pending > 0
    /\ accepted < MaxRequests
    /\ \E r \in Requests :
          /\ req' = r
          /\ pc' = IF r.method = "GET" THEN "get" ELSE "read"
    /\ pending' = pending - 1
    /\ accepted' = accepted + 1
    /\ failedBefore' = (failedBefore \/ RequestFailed)
    /\ body' = EmptyBytes
    /\ data' = Null
    /\ time_str' = <<>>
    /\ color' = ""
    /\ out' = <<>>
    /\ buf' = <<>>
    /\ fopen' = FALSE
    /\ resp' = NoResponse
    /\ exc' = ""
    /\ appended' = 0
    /\ steps' = <<>>
    /\ UNCHANGED <<running, restarts, file>>

\* what do_GET sends
HealthResponse == Response(200, "text/plain", "Debug log server running\n")

\* do_GET writing a line for the request, as do_POST does
do_GET_Logging ==
    /\ running
    /\ pc = "get"
    /\ resp' = HealthResponse
    /\ pc' = "done"
    /\ steps' = Append(steps, "respond")
    /\ file' = file \o <<Dumps(Obj(<<>>)), Newline>>
    /\ UNCHANGED <<server, req, locals, buf, fopen, exc, appended>>

\* the health check
do_GET ==
    /\ running
    /\ pc = "get"
    /\ resp' = HealthResponse
    /\ pc' = "done"
    /\ steps' = Append(steps, "respond")
    /\ UNCHANGED <<server, file, req, locals, buf, fopen, exc, appended>>

\* content_length = int(self.headers.get('Content-Length', 0));
\* body = self.rfile.read(content_length)
ReadBody ==
    /\ running
    /\ pc = "read"
    /\ IF req.clen = "invalid"
       THEN /\ Raise("ValueError")
            /\ UNCHANGED <<file, locals, buf, fopen, appended>>
       ELSE /\ body' = (IF req.clen = "missing" THEN EmptyBytes ELSE req.body)
            /\ pc' = PcAfter("read")
            /\ steps' = Append(steps, "read")
            /\ UNCHANGED <<server, file, req, data, time_str, color, out, buf,
                           fopen, resp, exc, appended>>

\* data = json.loads(body.decode('utf-8')), and the except clause for
\* json.JSONDecodeError
ParseBody ==
    /\ running
    /\ pc = "parse"
    /\ CASE body.enc # "utf8" ->
              /\ Raise("UnicodeDecodeError")
              /\ UNCHANGED <<file, locals, buf, fopen, appended>>
         [] body.enc = "utf8" /\ body.text # "json" ->
              /\ out' = out \o <<OutLine("jsonerror", "", <<>>, Null, Null),
                                 OutLine("body", "", <<>>, Null, Null)>>
              /\ resp' = Response(400, "", "")
              /\ pc' = "done"
              /\ steps' = Append(steps, "respond")
              /\ UNCHANGED <<server, file, req, body, data, time_str, color,
                             buf, fopen, exc, appended>>
         [] OTHER ->
              /\ data' = Loads(body.val)
              /\ pc' = PcAfter("parse")
              /\ steps' = Append(steps, "parse")
              /\ UNCHANGED <<server, file, req, body, time_str, color, out,
                             buf, fopen, resp, exc, appended>>

\* data['server_time'] = datetime.now().isoformat()
Enrich ==
    /\ running
    /\ pc = "enrich"
    /\ IF data.t # "obj"
       THEN /\ Raise("TypeError")
            /\ UNCHANGED <<file, locals, buf, fopen, appended>>
       ELSE /\ \E now \in Times :
                 data' = [data EXCEPT
                            !.kv = DictSet(@, K_server_time, Str(IsoFormat(now)))]
            /\ pc' = PcAfter("enrich")
            /\ steps' = Append(steps, "enrich")
            /\ UNCHANGED <<server, file, req, body, time_str, color, out, buf,
                           fopen, resp, exc, appended>>

\* the ANSI colours of the console
Red == "[91m"

Yellow == "[93m"

Cyan == "[96m"

Magenta == "[95m"

Green == "[92m"

\* SelectColor with the test on data ahead of the test on the message
SelectColorDataFirst(message, log_data) ==
    IF Contains(S_currentIDs, PyStr(log_data))
         \/ Contains(S_optimisticIDs, PyStr(log_data)) THEN Yellow
    ELSE IF Contains(S_ERROR, Upper(message))
              \/ Contains(S_FAIL, Upper(message)) THEN Red
    ELSE IF Contains(S_restore, Lower(message)) THEN Cyan
    ELSE IF Contains(S_notify, Lower(message)) THEN Magenta
    ELSE Green

\* the if/elif chain that picks the colour (message is a str)
SelectColor(message, log_data) ==
    IF Contains(S_ERROR, Upper(message))
         \/ Contains(S_FAIL, Upper(message)) THEN Red
    ELSE IF Contains(S_currentIDs, PyStr(log_data))
              \/ Contains(S_optimisticIDs, PyStr(log_data)) THEN Yellow
    ELSE IF Contains(S_restore, Lower(message)) THEN Cyan
    ELSE IF Contains(S_notify, Lower(message)) THEN Magenta
    ELSE Green

\* for key, value in log_data.items(): print(...)
DataLines(kv) ==
    [i \in 1..Len(kv) |-> OutLine("data", "", kv[i][1], kv[i][2], Null)]

\* the display time, the colour and the console output of one event
Render ==
    /\ running
    /\ pc = "render"
    /\ LET timestamp  == DictGet(data.kv, K_timestamp, Num(0))
           location   == DictGet(data.kv, K_location, Str(S_unknown))
           message    == DictGet(data.kv, K_message, Str(<<>>))
           log_data   == DictGet(data.kv, K_data, Obj(<<>>))
           hypothesis == DictGet(data.kv, K_hypothesisId, Str(<<>>))
       IN
       IF Truthy(timestamp) /\ timestamp.t \notin {"num", "bool"}
       THEN \* timestamp / 1000
            /\ Raise("TypeError")
            /\ UNCHANGED <<file, locals, buf, fopen, appended>>
       ELSE \E now \in Times :
            LET ts == IF Truthy(timestamp) THEN FormatTime(timestamp.n)
                                           ELSE FormatTime(now)
            IN
            /\ time_str' = ts
            /\ IF message.t # "str"
               THEN \* message.upper()
                    /\ Raise("AttributeError")
                    /\ UNCHANGED <<file, body, data, color, out, buf, fopen,
                                   appended>>
               ELSE LET c    == SelectColor(message.s, log_data)
                        head == <<OutLine("header", c, ts, hypothesis, location),
                                  OutLine("message", "", <<>>, message, Null)>>
                    IN
                    /\ color' = c
                    /\ IF Truthy(log_data) /\ log_data.t # "obj"
                       THEN \* log_data.items()
                            /\ out' = out \o head
                            /\ Raise("AttributeError")
                            /\ UNCHANGED <<file, body, data, buf, fopen,
                                           appended>>
                       ELSE /\ out' = out \o head \o DataLines(log_data.kv)
                                        \o <<OutLine("blank", "", <<>>, Null, Null)>>
                            /\ pc' = PcAfter("render")
                            /\ steps' = Append(steps, "render")
                            /\ UNCHANGED <<server, file, req, body, data, buf,
                                           fopen, resp, exc, appended>>

\* OpenAppend with mode 'w'
OpenTruncate(content) == <<>>

\* what open(LOG_FILE, 'a') leaves of the file's content
OpenAppend(content) == content

\* LogLine without the newline
LogLineNoNewline(d) == <<Dumps(d)>>

\* json.dumps(data) + '\n'
LogLine(d) == <<Dumps(d), Newline>>

\* the lines of a file content
CountLines(f) == Cardinality({i \in 1..Len(f) : f[i] = Newline})

\* with open(LOG_FILE, 'a') as f: the open may fail
OpenLog ==
    /\ running
    /\ pc = "open"
    /\ \E ok \in BOOLEAN :
          IF ok
          THEN /\ fopen' = TRUE
               /\ file' = OpenAppend(file)
               /\ pc' = PcAfter("open")
               /\ steps' = Append(steps, "open")
               /\ UNCHANGED <<server, req, locals, buf, resp, exc, appended>>
          ELSE /\ Raise("OSError")
               /\ UNCHANGED <<file, locals, buf, fopen, appended>>

\* f.write(json.dumps(data) + '\n'): one string, into the file object's
\* buffer
WriteLine ==
    /\ running
    /\ pc = "write"
    /\ buf' = buf \o LogLine(data)
    /\ pc' = PcAfter("write")
    /\ steps' = Append(steps, "write")
    /\ UNCHANGED <<server, file, req, locals, fopen, resp, exc, appended>>

\* leaving the with block: the buffer goes to the file in one write, and
\* the file is closed; the write may fail, and then nothing is written
CloseLog ==
    /\ running
    /\ pc = "close"
    /\ buf' = <<>>
    /\ fopen' = FALSE
    /\ \E ok \in BOOLEAN :
          IF ok
          THEN /\ file' = file \o buf
               /\ appended' = appended + CountLines(buf)
               /\ pc' = PcAfter("close")
               /\ steps' = Append(steps, "close")
               /\ UNCHANGED <<server, req, locals, resp, exc>>
          ELSE /\ Raise("OSError")
               /\ UNCHANGED <<file, locals, appended>>

OkResponse == Response(200, "application/json", "{\"status\":\"ok\"}")

\* send_response(200), the Content-Type header, the body
Respond ==
    /\ running
    /\ pc = "respond"
    /\ resp' = OkResponse
    /\ pc' = PcAfter("respond")
    /\ steps' = Append(steps, "respond")
    /\ UNCHANGED <<server, file, req, locals, buf, fopen, exc, appended>>

(* --------------------------- stopping, starting ----------------------- *)
\* Ctrl-C: KeyboardInterrupt leaves the handler (a with block it is in
\* closes the file, which writes the buffer) and serve_forever; the process
\* ends and the waiting connections are dropped
Interrupt ==
    /\ running
    /\ restarts < MaxRestarts
    /\ running' = FALSE
    /\ pending' = 0
    /\ IF Handling
       THEN /\ pc' = "aborted"
            /\ exc' = "KeyboardInterrupt"
            /\ file' = (IF fopen THEN file \o buf ELSE file)
            /\ appended' = (IF fopen THEN appended + CountLines(buf) ELSE appended)
            /\ buf' = <<>>
            /\ fopen' = FALSE
       ELSE UNCHANGED <<pc, exc, file, appended, buf, fopen>>
    /\ UNCHANGED <<restarts, accepted, failedBefore, req, locals, resp, steps>>

\* the script is run again: a new process, the same file
Start ==
    /\ ~running
    /\ restarts < MaxRestarts
    /\ running' = TRUE
    /\ restarts' = restarts + 1
    /\ failedBefore' = FALSE
    /\ req' = NoRequest
    /\ pc' = "idle"
    /\ body' = EmptyBytes
    /\ data' = Null
    /\ time_str' = <<>>
    /\ color' = ""
    /\ out' = <<>>
    /\ buf' = <<>>
    /\ fopen' = FALSE
    /\ resp' = NoResponse
    /\ exc' = ""
    /\ appended' = 0
    /\ steps' = <<>>
    /\ UNCHANGED <<pending, accepted, file>>

Next ==
    \/ Connect
    \/ Accept
    \/ do_GET
    \/ ReadBody
    \/ ParseBody
    \/ Enrich
    \/ Render
    \/ OpenLog
    \/ WriteLine
    \/ CloseLog
    \/ Respond
    \/ Interrupt
    \/ Start

Spec == Init /\ [][Next]_vars

(* ------------------------------ properties --------------------------- *)
Range(q) == {q[i] : i \in 1..Len(q)}

IsPrefix(a, b) == Len(a) <= Len(b) /\ a = SubSeq(b, 1, Len(a))

\* the handler ran to its end: it returned, or an exception left it
Finished == pc \in {"done", "crashed"}

\* the request is a POST whose body is a JSON object, with a Content-Length
\* header giving its length
PostsObject ==
    /\ req.method = "POST"
    /\ req.clen = "exact"
    /\ req.body.enc = "utf8"
    /\ req.body.text = "json"
    /\ req.body.val.t = "obj"

\* the request is a POST whose body is not a JSON document; the
\* Content-Length header is absent or gives the length
PostsNoJson ==
    /\ req.method = "POST"
    /\ req.clen \in {"exact", "missing"}
    /\ (req.body.enc # "utf8" \/ req.body.text # "json")

\* the value the request's object gives for key (the last one, should the
\* key be repeated), default when the key is absent
SentField(key, default) ==
    LET kv   == req.body.val.kv
        idxs == {i \in 1..Len(kv) : kv[i][1] = key}
    IN  IF idxs = {} THEN default
        ELSE Loads(kv[CHOOSE i \in idxs : \A j \in idxs : j <= i][2])

\* the last line of the file, parsed as a JSON document on its own
LastLineParsed == Loads(file[Len(file) - 1].val)

\* the last line of the file is an object with every field of the request
\* (server_time apart, which the server sets) and a server_time string
LastLineHasSentFields ==
    /\ Len(file) >= 2
    /\ file[Len(file)] = Newline
    /\ file[Len(file) - 1].kind = "json"
    /\ LET line == LastLineParsed
       IN  /\ line.t = "obj"
           /\ \A k \in DictKeys(req.body.val.kv) \ {K_server_time} :
                 /\ k \in DictKeys(line.kv)
                 /\ DictGet(line.kv, k, Null) = SentField(k, Null)
           /\ K_server_time \in DictKeys(line.kv)
           /\ DictGet(line.kv, K_server_time, Null).t = "str"
           /\ DictGet(line.kv, K_server_time, Null).s
                 \in {IsoFormat(t) : t \in Times}

\* C1 (as claimed): every POST of a JSON object, whatever the types of its
\* values, is answered 200 {"status":"ok"} and adds exactly one line to the
\* log file, holding every field of the request plus server_time (the file
\* system accepting the append).
C1_EveryObjectLogged ==
    (PostsObject /\ Finished /\ exc # "OSError")
        => (resp = OkResponse /\ appended = 1 /\ LastLineHasSentFields)

\* C2 (as claimed): every POST whose body is not JSON (malformed, empty, or
\* not valid UTF-8) is answered 400 with an empty body and adds no line.
C2_EveryNonJsonRejected ==
    (PostsNoJson /\ Finished)
        => (resp = Response(400, "", "") /\ appended = 0)

\* the request's timestamp is present and is not a number, its other fields
\* are of the documented types
PostsNonNumericTimestamp ==
    /\ PostsObject
    /\ K_timestamp \in DictKeys(req.body.val.kv)
    /\ SentField(K_timestamp, Null).t \notin {"num", "bool"}
    /\ SentField(K_message, Str(<<>>)).t = "str"
    /\ SentField(K_data, Obj(<<>>)).t = "obj"

\* C3 (as claimed): a timestamp that is not a number never crashes the
\* sink: the display time falls back to the current time and the request
\* completes (render, append, respond).
C3_BadTimestampFallsBack ==
    (PostsNonNumericTimestamp /\ Finished /\ exc # "OSError")
        => /\ resp = OkResponse
           /\ appended = 1
           /\ time_str \in {FormatTime(t) : t \in Times}

\* the statements of do_POST on its success path, in program order
PostOrder ==
    <<"read", "parse", "enrich", "render", "open", "write", "close", "respond">>

\* C4: within one POST request enrichment, rendering, the append and the
\* response happen in that order; once the 200 is sent the event's line is
\* the last line of the file and the file is closed.
C4_PersistedBeforeResponse ==
    /\ (req.method = "POST" /\ resp.status # 400) => IsPrefix(steps, PostOrder)
    /\ (req.method = "POST" /\ resp.status = 200) =>
          /\ appended = 1
          /\ ~fopen
          /\ buf = <<>>
          /\ Len(file) >= 2
          /\ file[Len(file) - 1] = Dumps(data)
          /\ file[Len(file)] = Newline
          /\ K_server_time \in DictKeys(data.kv)
          /\ out # <<>>

C4_Witness == req.method = "POST" /\ pc = "done" /\ resp = OkResponse

C6_GetLeavesLog ==
    [][(req.method = "GET" /\ pc = "get") =>
          /\ file' = file
          /\ appended' = 0
          /\ (pc' = "done" =>
                resp' = Response(200, "text/plain", "Debug log server running\n"))
      ]_vars

C6_Witness ==
    /\ req.method = "GET"
    /\ req.body.text = "json"
    /\ pc = "done"
    /\ resp.status = 200
    /\ Len(file) = 2

\* the colour rules in priority order, as <<condition, colour>> pairs
ColorRules(message, dataText) ==
    LET upper == Upper(message)
        lower == Lower(message)
    IN  << <<Contains(S_ERROR, upper) \/ Contains(S_FAIL, upper), Red>>,
           <<Contains(S_currentIDs, dataText) \/ Contains(S_optimisticIDs, dataText), Yellow>>,
           <<Contains(S_restore, lower), Cyan>>,
           <<Contains(S_notify, lower), Magenta>>,
           <<TRUE, Green>> >>

FirstMatch(rules) ==
    rules[CHOOSE i \in 1..Len(rules) :
            rules[i][1] /\ \A j \in 1..(i - 1) : ~rules[j][1]][2]

\* C7: whenever the handler chooses a colour, it is the colour of the first
\* rule, in the order red, yellow, cyan, magenta, green, that the event's
\* message and the string form of its data satisfy.
C7_FirstMatchingColor ==
    [][(color' # color /\ color' # "") =>
          /\ req' = req
          /\ color' = FirstMatch(ColorRules(SentField(K_message, Str(<<>>)).s,
                                            PyStr(SentField(K_data, Obj(<<>>)))))
      ]_vars

C7_Witness ==
    /\ color = Red
    /\ Contains(S_currentIDs, PyStr(SentField(K_data, Obj(<<>>))))
    /\ pc = "done"

\* C8: the log file only grows: every step, a restart included, leaves the
\* tokens already in the file in place.
C8_AppendOnly ==
    [][Len(file') >= Len(file) /\ SubSeq(file', 1, Len(file)) = file]_vars

C8_Witness ==
    /\ restarts = 1
    /\ running
    /\ pc = "idle"
    /\ Len(file) = 4

\* the request is a POST of an object whose fields have the documented types
PostsTypedObject ==
    /\ PostsObject
    /\ LET ts == SentField(K_timestamp, Num(0))
       IN  ts.t \in {"num", "bool"} \/ ~Truthy(ts)
    /\ SentField(K_message, Str(<<>>)).t = "str"
    /\ SentField(K_data, Obj(<<>>)).t = "obj"

\* C9: a request that fails (a 400, or an exception that leaves the
\* handler, a failed append included) leaves the server running and ready
\* for the next connection, and a request handled after a failure is
\* answered as usual.
C9_ServerOutlivesFailure ==
    [][(Handling /\ Finished') =>
          /\ RequestFailed' => (running' /\ ~Handling')
          /\ (failedBefore' /\ req'.method = "GET") =>
                resp' = Response(200, "text/plain", "Debug log server running\n")
          /\ (failedBefore' /\ exc' # "OSError" /\ PostsTypedObject') =>
                (resp' = OkResponse /\ appended' = 1)
      ]_vars

C9_Witness ==
    /\ failedBefore
    /\ running
    /\ req.method = "POST"
    /\ pc = "done"
    /\ resp = OkResponse

\* C10: a POST whose handler is left by an exception before the log file
\* is opened adds no line and sends no response; a line is only ever added
\* for an event whose rendering completed.
C10_NoLineWithoutRender ==
    /\ (pc = "crashed" /\ "open" \notin Range(steps)) =>
          (appended = 0 /\ resp = NoResponse)
    /\ appended > 0 => "render" \in Range(steps)

C10_Witness ==
    /\ pc = "crashed"
    /\ exc = "AttributeError"
    /\ out # <<>>
    /\ Len(file) = 2

====
